---- MODULE Spec2Model ----
(***************************************************************************)
(* The Redfish hybrid proof programs, all working on the one build         *)
(* directory ezkl/build, with the ezkl backend as an external service      *)
(* whose every call may succeed, return a falsy value or raise.            *)
(*                                                                         *)
(*   Spec        hybrid_proof_pipeline_fixed.main, step by step, with      *)
(*               generate_hybrid_input.py and generate_hybrid_proof.py,    *)
(*               started in a build directory that the stage scripts left  *)
(*               empty or fully built;                                     *)
(*   SpecStages  the stage scripts 01_gen_data .. 04_setup and 06_prove    *)
(*               and the replacement of network.onnx, started in an empty  *)
(*               build directory;                                          *)
(*   SpecConc    two processes of main interleaved on the one build        *)
(*               directory, save_ezkl_input in its two steps;              *)
(*   SpecFeatures  generate_model_input_with_verified_data called again    *)
(*               and again on balances around both clipping points, with   *)
(*               other uses of numpy's generator in between;               *)
(*   SpecLive    the programs of Spec against a backend whose every call   *)
(*               succeeds, under weak fairness.                            *)
(***************************************************************************)
EXTENDS Integers, Sequences, FiniteSets, TLC

\* ------------------------------------------------------------- bounds
MaxRuns == 2     \* invocations that stamp their artifacts (main, 06_prove, generate_hybrid_proof)
NumModels == 2   \* versions of network.onnx
MaxQty == 1      \* attested quantities 0..MaxQty
GridSteps == 2   \* balances -GridSteps*EthStep .. GridSteps*EthStep given to build
EthStep == 400   \* distance of two balances of that grid, in ETH
MaxDraws == 1    \* values other code draws from the generator between two builds

\* ------------------------------------------------------------- constants of the code
\* Balances are counted in whole ETH (the field balance_wei holds the
\* balance in units of 10^18 wei) and features in thousandths.
center == 50             \* normalize_balance: (balance_eth - 50) / 250
scale == 250
clampBound == 2500       \* np.clip(normalized, -2.5, 2.5)
Seed == 42               \* np.random.seed(42)
AuxCount == 15           \* np.random.randn(15)

\* ------------------------------------------------------------- paths
INPUT_PATH == "input.json"
SETTINGS_PATH == "settings.json"
COMPILED_PATH == "network.ezkl"
PK_PATH == "pk.key"
VK_PATH == "vk.key"
SRS_PATH == "kzg.srs"
WITNESS_PATH == "witness.json"
PROOF_PATH == "proof.json"
\* The witness path of generate_ezkl_proof as hybrid_proof_pipeline.py had it.
witness_path_of_first_pipeline == "witness.json"
hybrid_input_path == "hybrid_input.json"
hybrid_witness_path == "hybrid_witness.json"
hybrid_proof_path == "hybrid_proof.json"

BUILD_DIR ==
  {INPUT_PATH, SETTINGS_PATH, COMPILED_PATH, PK_PATH, VK_PATH, SRS_PATH,
   WITNESS_PATH, PROOF_PATH, hybrid_input_path, hybrid_witness_path,
   hybrid_proof_path}

VARIABLES
  onnx,      \* the version of ezkl/artifacts/network.onnx (MODEL_PATH)
  fs,        \* the build directory: path -> content
  pc,        \* position of hybrid_proof_pipeline_fixed.main ("idle": no run)
  prog,      \* the program of the current or last invocation
  runId,     \* number of stamping invocations started so far
  att,       \* the attestation file read by the current or last run of main
  vlayer_data, \* main's local: the decoded fact
  input_data,  \* main's local: the feature vector record
  calls,     \* the ezkl calls of the current or last invocation, in order
             \* (in SpecFeatures: the last two calls of build)
  steps,     \* the program steps of the current or last invocation, in order
  log,       \* the lines printed by the current or last invocation
  outcome,   \* how the current or last invocation ended
  rng,       \* the state of numpy's process-wide generator in that invocation
  peer       \* a second process of main that is not scheduled: its locals

vars ==
  <<onnx, fs, pc, prog, runId, att, vlayer_data, input_data, calls, steps,
    log, outcome, rng, peer>>

\* ------------------------------------------------------------- contents
Absent == [kind |-> "absent"]
Present(f, p) == f[p].kind # "absent"
NoData == [kind |-> "none"]

\* A file that open(path, 'w') has truncated and json.dump has not yet
\* filled: it exists, and it does not parse.
Partial == [kind |-> "partial"]
Readable(f, p) == f[p].kind \notin {"absent", "partial"}

Models == 1..NumModels
Quantities == 0..MaxQty

\* The attestation file: its success flag, its data.journalDataAbi field
\* (missing, not decodable, or the encoding of a quantity) and whether
\* data.zkProof is there.
Payloads ==
  {[kind |-> "missing"], [kind |-> "malformed"]}
    \cup {[kind |-> "quantity", q |-> q] : q \in Quantities}

Attestations ==
  [success : {"true", "false", "absent"}, payload : Payloads, zkProof : BOOLEAN]

\* An attestation that decodes: its success flag is true, its journal is
\* the encoding of a quantity and its zkProof field is there.
Decodable(a) == a.success = "true" /\ a.payload.kind = "quantity" /\ a.zkProof

\* ------------------------------------------------------------- numpy
\* The process-wide generator: whether it was seeded, with what, and how
\* many values were drawn since. A process starts with a generator seeded
\* from the entropy of the system.
Unseeded == [seeded |-> FALSE, seed |-> 0, pos |-> 0]

np_random_seed(g, s) == [seeded |-> TRUE, seed |-> s, pos |-> 0]

\* The i-th value a generator in state g draws next: the value at that
\* position of the stream of its seed, unpredictable when it was not seeded.
Draw(g, i) == [seeded |-> g.seeded, seed |-> g.seed, pos |-> g.pos + i]

\* np.random.randn(n): the n values and the generator after the draws.
np_random_randn(g, n) ==
  [vals |-> [i \in 1..n |-> Draw(g, i)], rng |-> [g EXCEPT !.pos = @ + n]]

\* np.clip(x, lo, hi)
np_clip(x, lo, hi) == IF x < lo THEN lo ELSE IF x > hi THEN hi ELSE x

\* ------------------------------------------------------------- the ezkl backend
\* How one call of a capability ends: it does its work and returns a truthy
\* value, it returns a falsy value having written nothing, it raises
\* TypeError (the calling convention is not the one this backend accepts),
\* or it raises another exception.
Raises(o) == o \in {"TypeError", "Exception"}

\* A call can do its work only when the files it reads are there and whole.
Outcomes(f, needed) ==
  IF \A p \in needed : Readable(f, p)
    THEN {"ok", "falsy", "TypeError", "Exception"}
    ELSE {"falsy", "TypeError", "Exception"}

\* verify returns its verdict or raises.
VerifyOutcomes(f, needed) ==
  IF \A p \in needed : Readable(f, p)
    THEN {"true", "false", "TypeError", "Exception"}
    ELSE {"TypeError", "Exception"}

Last(c) == c[Len(c)]

\* One call of the backend: the capability, the calling convention (named or
\* positional arguments) and how the call ended.
Call(cap, conv, o) == [cap |-> cap, conv |-> conv, res |-> o]

\* gen_settings of 02_settings removing the compiled circuit and the keys
\* that were built from the settings it replaces.
gen_settings_invalidating(f, o, output) ==
  IF o = "ok"
    THEN [f EXCEPT ![output] = [kind |-> "settings", model |-> onnx],
                   ![COMPILED_PATH] = Absent,
                   ![VK_PATH] = Absent,
                   ![PK_PATH] = Absent]
    ELSE f

\* The content of a file records what it was built from: the settings the
\* version of network.onnx, the circuit its settings, the keys their circuit,
\* a witness its input file, a proof its witness; witnesses and proofs also
\* record the invocation that wrote them.
ezkl_gen_settings(f, o, output) ==
  IF o = "ok"
    THEN [f EXCEPT ![output] = [kind |-> "settings", model |-> onnx]]
    ELSE f

\* calibrate_settings rewrites the settings file in place; the file stays the
\* settings of the same network.onnx.
ezkl_calibrate_settings(f, o, settings) ==
  IF o = "ok" THEN [f EXCEPT ![settings] = f[settings]] ELSE f

ezkl_compile_circuit(f, o, compiled_circuit, settings_path) ==
  IF o = "ok"
    THEN [f EXCEPT ![compiled_circuit] =
            [kind |-> "compiled", settings |-> f[settings_path]]]
    ELSE f

ezkl_get_srs(f, o, srs_path) ==
  IF o = "ok" THEN [f EXCEPT ![srs_path] = [kind |-> "srs"]] ELSE f

ezkl_setup(f, o, model, vk_path, pk_path) ==
  IF o = "ok"
    THEN [f EXCEPT ![vk_path] = [kind |-> "vk", circuit |-> f[model]],
                   ![pk_path] = [kind |-> "pk", circuit |-> f[model]]]
    ELSE f

ezkl_gen_witness(f, o, data, model, output, id) ==
  IF o = "ok"
    THEN [f EXCEPT ![output] =
            [kind |-> "witness", data |-> f[data], by |-> id]]
    ELSE f

ezkl_prove(f, o, witness, pk_path, proof_path, id) ==
  IF o = "ok"
    THEN [f EXCEPT ![proof_path] =
            [kind |-> "proof", witness |-> f[witness], by |-> id]]
    ELSE f

\* ------------------------------------------------------------- initial states
EmptyDir == [p \in BUILD_DIR |-> Absent]

\* The build directory after 01_gen_data, 02_settings, 03_compile and
\* 04_setup each ran once with every call succeeding, for network.onnx 1.
BuiltDir ==
  LET f1 == [EmptyDir EXCEPT ![INPUT_PATH] = [kind |-> "input", src |-> "dummy"]]
      f2 == [f1 EXCEPT ![SETTINGS_PATH] = [kind |-> "settings", model |-> 1]]
      f3 == [f2 EXCEPT ![COMPILED_PATH] =
               [kind |-> "compiled", settings |-> f2[SETTINGS_PATH]]]
      f4 == [f3 EXCEPT ![SRS_PATH] = [kind |-> "srs"]]
  IN [f4 EXCEPT ![VK_PATH] = [kind |-> "vk", circuit |-> f4[COMPILED_PATH]],
                ![PK_PATH] = [kind |-> "pk", circuit |-> f4[COMPILED_PATH]]]

InitRest ==
  /\ onnx = 1
  /\ pc = "idle"
  /\ prog = "none"
  /\ runId = 0
  /\ att = NoData
  /\ vlayer_data = NoData
  /\ input_data = NoData
  /\ calls = <<>>
  /\ steps = <<>>
  /\ log = <<>>
  /\ outcome = "none"
  /\ rng = Unseeded
  /\ peer = NoData

InitStages == fs = EmptyDir /\ InitRest

Init == fs \in {EmptyDir, BuiltDir} /\ InitRest

\* ------------------------------------------------------------- invocations
\* What every program start does to the bookkeeping of the invocation.
Begin(name) ==
  /\ prog' = name
  /\ vlayer_data' = NoData
  /\ input_data' = NoData

\* ------------------------------------------------------------- hybrid_proof_pipeline_fixed.py
\* decode_vlayer_proof falling back to the balance 0 when the journal field
\* is missing, as extract_balance_from_vlayer_proof of the first pipeline
\* took it for granted.
decode_with_default(a) ==
  IF a.success # "true"
    THEN [raised |-> "ValueError", data |-> NoData,
          steps |-> <<"load_json", "check_success">>]
  ELSE IF a.payload.kind = "quantity" /\ a.zkProof
    THEN [raised |-> "none",
          data |-> [kind |-> "fact", balance_wei |-> a.payload.q],
          steps |-> <<"load_json", "check_success", "read_journalDataAbi",
                      "abi_decode", "parse_int", "read_zkProof">>]
  ELSE [raised |-> "none", data |-> [kind |-> "fact", balance_wei |-> 0],
        steps |-> <<"load_json", "check_success", "read_journalDataAbi">>]

\* decode_vlayer_proof reading and decoding the journal before it tests the
\* success flag.
decode_payload_first(a) ==
  IF a.payload.kind = "missing"
    THEN [raised |-> "KeyError", data |-> NoData,
          steps |-> <<"load_json", "read_journalDataAbi">>]
  ELSE IF a.payload.kind = "malformed"
    THEN [raised |-> "DecodeError", data |-> NoData,
          steps |-> <<"load_json", "read_journalDataAbi", "abi_decode">>]
  ELSE IF a.success # "true"
    THEN [raised |-> "ValueError", data |-> NoData,
          steps |-> <<"load_json", "read_journalDataAbi", "abi_decode",
                      "parse_int", "check_success">>]
  ELSE IF ~a.zkProof
    THEN [raised |-> "KeyError", data |-> NoData,
          steps |-> <<"load_json", "read_journalDataAbi", "abi_decode",
                      "parse_int", "check_success", "read_zkProof">>]
  ELSE [raised |-> "none",
        data |-> [kind |-> "fact", balance_wei |-> a.payload.q],
        steps |-> <<"load_json", "read_journalDataAbi", "abi_decode",
                    "parse_int", "check_success", "read_zkProof">>]

\* decode_vlayer_proof: the steps it takes on an attestation, the exception
\* it raises ("none": it returns) and the fact it returns.
decode_vlayer_proof(a) ==
  IF a.success # "true"
    THEN [raised |-> "ValueError", data |-> NoData,
          steps |-> <<"load_json", "check_success">>]
  ELSE IF a.payload.kind = "missing"
    THEN [raised |-> "KeyError", data |-> NoData,
          steps |-> <<"load_json", "check_success", "read_journalDataAbi">>]
  ELSE IF a.payload.kind = "malformed"
    THEN [raised |-> "DecodeError", data |-> NoData,
          steps |-> <<"load_json", "check_success", "read_journalDataAbi",
                      "abi_decode">>]
  ELSE IF ~a.zkProof
    THEN [raised |-> "KeyError", data |-> NoData,
          steps |-> <<"load_json", "check_success", "read_journalDataAbi",
                      "abi_decode", "parse_int", "read_zkProof">>]
  ELSE [raised |-> "none",
        data |-> [kind |-> "fact", balance_wei |-> a.payload.q],
        steps |-> <<"load_json", "check_success", "read_journalDataAbi",
                    "abi_decode", "parse_int", "read_zkProof">>]

\* normalize_balance clipping on one side only, as with np.minimum.
normalize_upper_only(balance_eth) ==
  LET normalized == ((balance_eth - center) * 1000) \div scale
  IN IF normalized > clampBound THEN clampBound ELSE normalized

\* normalize_balance: (balance_eth - 50) / 250 clipped to [-2.5, 2.5], in
\* thousandths; the division is exact for a balance in whole ETH.
normalize_balance(balance_eth) ==
  LET normalized == ((balance_eth - center) * 1000) \div scale
  IN np_clip(normalized, -clampBound, clampBound)

\* generate_model_input_with_verified_data drawing features[1..15] from the
\* generator as it finds it, without the call of np.random.seed.
build_without_seed(d, id, g) ==
  LET r == np_random_randn(g, AuxCount)
  IN [input |-> [kind |-> "input", src |-> "attested", balance |-> d.balance_wei,
                 seed |-> Seed, by |-> id,
                 features |-> <<normalize_balance(d.balance_wei)>> \o r.vals],
      rng |-> r.rng]

\* generate_model_input_with_verified_data drawing features[1..15] from a
\* generator of its own, as with np.random.default_rng(42).
build_with_local_generator(d, id, g) ==
  LET r == np_random_randn(np_random_seed(Unseeded, Seed), AuxCount)
  IN [input |-> [kind |-> "input", src |-> "attested", balance |-> d.balance_wei,
                 seed |-> Seed, by |-> id,
                 features |-> <<normalize_balance(d.balance_wei)>> \o r.vals],
      rng |-> g]

\* generate_model_input_with_verified_data, called with the decoded fact
\* while the process-wide generator is in state g: feature[0] from the
\* decoded balance, features[1..15] from the process-wide generator after
\* seeding it with 42; the input record it returns (stamped with the
\* invocation) and the state it leaves the generator in.
generate_model_input_with_verified_data(d, id, g) ==
  LET r == np_random_randn(np_random_seed(g, Seed), AuxCount)
  IN [input |-> [kind |-> "input", src |-> "attested", balance |-> d.balance_wei,
                 seed |-> Seed, by |-> id,
                 features |-> <<normalize_balance(d.balance_wei)>> \o r.vals],
      rng |-> r.rng]

\* main is started: the attestation file holds any attestation.
StartMain ==
  /\ pc = "idle"
  /\ runId < MaxRuns
  /\ runId' = runId + 1
  /\ att' \in Attestations
  /\ Begin("main")
  /\ pc' = "decode"
  /\ calls' = <<>>
  /\ steps' = <<>>
  /\ log' = <<>>
  /\ outcome' = "running"
  /\ rng' = Unseeded
  /\ UNCHANGED <<onnx, fs, peer>>

\* Step 1 of main: an exception of decode_vlayer_proof leaves main.
Decode ==
  /\ pc = "decode"
  /\ LET r == decode_vlayer_proof(att)
     IN /\ steps' = steps \o r.steps
        /\ IF r.raised # "none"
             THEN /\ pc' = "idle"
                  /\ outcome' = "crashed"
                  /\ log' = Append(log, r.raised)
                  /\ vlayer_data' = vlayer_data
             ELSE /\ pc' = "features"
                  /\ outcome' = outcome
                  /\ log' = Append(log, "Verified balance")
                  /\ vlayer_data' = r.data
  /\ UNCHANGED <<onnx, fs, prog, runId, att, input_data, calls, rng, peer>>

\* Step 2 of main.
BuildFeatures ==
  /\ pc = "features"
  /\ LET r == generate_model_input_with_verified_data(vlayer_data, runId, rng)
     IN input_data' = r.input /\ rng' = r.rng
  /\ steps' = Append(steps, "build_features")
  /\ log' = Append(log, "Feature vector created")
  /\ pc' = "save"
  /\ UNCHANGED <<onnx, fs, prog, runId, att, vlayer_data, calls, outcome, peer>>

\* Step 3 of main: save_ezkl_input.
SaveInput ==
  /\ pc = "save"
  /\ fs' = [fs EXCEPT ![hybrid_input_path] = input_data]
  /\ steps' = Append(steps, "save_input")
  /\ log' = Append(log, "Input saved")
  /\ pc' = "gen_witness"
  /\ UNCHANGED <<onnx, prog, runId, att, vlayer_data, input_data, calls, outcome,
                 rng, peer>>

\* generate_ezkl_proof with a test for an artifact that is already there: the
\* call of gen_witness is skipped when hybrid_witness.json exists.
GenWitnessCached ==
  /\ pc = "gen_witness"
  /\ IF Present(fs, hybrid_witness_path)
       THEN /\ pc' = "prove"
            /\ log' = Append(log, "Witness reused")
            /\ UNCHANGED <<fs, calls, steps, outcome>>
       ELSE \E o \in Outcomes(fs, {hybrid_input_path, COMPILED_PATH}) :
              /\ calls' = Append(calls, Call("gen_witness", "named", o))
              /\ fs' = ezkl_gen_witness(fs, o, hybrid_input_path, COMPILED_PATH,
                                        hybrid_witness_path, runId)
              /\ steps' = Append(steps, "gen_witness")
              /\ IF Raises(o)
                   THEN /\ pc' = "idle"
                        /\ outcome' = "failed_generation"
                        /\ log' = log \o <<"Error", "Proof generation failed">>
                   ELSE /\ pc' = "prove"
                        /\ outcome' = outcome
                        /\ log' = Append(log, "Witness generated")
  /\ UNCHANGED <<onnx, prog, runId, att, vlayer_data, input_data, rng, peer>>

\* generate_ezkl_proof going on to prove after gen_witness raised, as with an
\* except branch that only prints.
GenWitnessContinue ==
  /\ pc = "gen_witness"
  /\ \E o \in Outcomes(fs, {hybrid_input_path, COMPILED_PATH}) :
       /\ calls' = Append(calls, Call("gen_witness", "named", o))
       /\ fs' = ezkl_gen_witness(fs, o, hybrid_input_path, COMPILED_PATH,
                                 hybrid_witness_path, runId)
       /\ steps' = Append(steps, "gen_witness")
       /\ pc' = "prove"
       /\ outcome' = outcome
       /\ log' = Append(log, IF Raises(o) THEN "Error" ELSE "Witness generated")
  /\ UNCHANGED <<onnx, prog, runId, att, vlayer_data, input_data, rng, peer>>

\* Step 4 of main, first half: generate_ezkl_proof calls gen_witness inside
\* its try block; any exception makes it return False, and main returns.
GenWitness ==
  /\ pc = "gen_witness"
  /\ \E o \in Outcomes(fs, {hybrid_input_path, COMPILED_PATH}) :
       /\ calls' = Append(calls, Call("gen_witness", "named", o))
       /\ fs' = ezkl_gen_witness(fs, o, hybrid_input_path, COMPILED_PATH,
                                 hybrid_witness_path, runId)
       /\ steps' = Append(steps, "gen_witness")
       /\ IF Raises(o)
            THEN /\ pc' = "idle"
                 /\ outcome' = "failed_generation"
                 /\ log' = log \o <<"Error", "Proof generation failed">>
            ELSE /\ pc' = "prove"
                 /\ outcome' = outcome
                 /\ log' = Append(log, "Witness generated")
  /\ UNCHANGED <<onnx, prog, runId, att, vlayer_data, input_data, rng, peer>>

\* generate_ezkl_proof removing the witness in its except branch.
AfterProveCleanup(f, o, id) ==
  IF Raises(o)
    THEN [f EXCEPT ![hybrid_witness_path] = Absent]
    ELSE ezkl_prove(f, o, hybrid_witness_path, PK_PATH, hybrid_proof_path, id)

\* The build directory after the prove call of generate_ezkl_proof: the call
\* writes hybrid_proof.json when it succeeds, and the except branch touches
\* no file.
AfterProve(f, o, id) ==
  ezkl_prove(f, o, hybrid_witness_path, PK_PATH, hybrid_proof_path, id)

\* generate_ezkl_proof without its "return True": it returns None after a
\* prove call that did not raise, and main takes that for a failure.
ProveNoReturn ==
  /\ pc = "prove"
  /\ \E o \in Outcomes(fs, {hybrid_witness_path, COMPILED_PATH, PK_PATH, SRS_PATH}) :
       /\ calls' = Append(calls, Call("prove", "named", o))
       /\ fs' = AfterProve(fs, o, runId)
       /\ steps' = Append(steps, "prove")
       /\ pc' = "idle"
       /\ outcome' = "failed_generation"
       /\ log' = log \o (IF Raises(o) THEN <<"Error">> ELSE <<"ZK proof generated">>)
                     \o <<"Proof generation failed">>
  /\ UNCHANGED <<onnx, prog, runId, att, vlayer_data, input_data, rng, peer>>

\* Step 4 of main, second half: generate_ezkl_proof calls prove in the same
\* try block and returns True when nothing was raised.
Prove ==
  /\ pc = "prove"
  /\ \E o \in Outcomes(fs, {hybrid_witness_path, COMPILED_PATH, PK_PATH, SRS_PATH}) :
       /\ calls' = Append(calls, Call("prove", "named", o))
       /\ fs' = AfterProve(fs, o, runId)
       /\ steps' = Append(steps, "prove")
       /\ IF Raises(o)
            THEN /\ pc' = "idle"
                 /\ outcome' = "failed_generation"
                 /\ log' = log \o <<"Error", "Proof generation failed">>
            ELSE /\ pc' = "verify"
                 /\ outcome' = outcome
                 /\ log' = Append(log, "ZK proof generated")
  /\ UNCHANGED <<onnx, prog, runId, att, vlayer_data, input_data, rng, peer>>

\* verify_hybrid_proof printing the line of a rejection in its except branch
\* too.
verify_one_line(o) ==
  IF o = "true" THEN [ret |-> TRUE, line |-> "Hybrid proof verified"]
  ELSE [ret |-> FALSE, line |-> "Verification failed"]

\* verify_hybrid_proof: what it returns and the line it prints, given how
\* the call of ezkl.verify ended.
verify_hybrid_proof(o) ==
  IF Raises(o) THEN [ret |-> FALSE, line |-> "Error during verification"]
  ELSE IF o = "true" THEN [ret |-> TRUE, line |-> "Hybrid proof verified"]
  ELSE [ret |-> FALSE, line |-> "Verification failed"]

\* main reporting success whatever verify_hybrid_proof returned.
MainReportAlways(verified) == [outcome |-> "succeeded", line |-> "SUCCESS"]

\* The branch of main on the value verify_hybrid_proof returned.
MainReport(verified) ==
  IF verified
    THEN [outcome |-> "succeeded", line |-> "SUCCESS"]
    ELSE [outcome |-> "failed_verification",
          line |-> "Hybrid proof pipeline failed at verification"]

\* Step 5 of main.
Verify ==
  /\ pc = "verify"
  /\ \E o \in VerifyOutcomes(fs, {hybrid_proof_path, SETTINGS_PATH, VK_PATH, SRS_PATH}) :
       LET v == verify_hybrid_proof(o)
           r == MainReport(v.ret)
       IN /\ calls' = Append(calls, Call("verify", "named", o))
          /\ steps' = Append(steps, "verify")
          /\ log' = log \o <<v.line, r.line>>
          /\ outcome' = r.outcome
          /\ pc' = "idle"
  /\ UNCHANGED <<onnx, fs, prog, runId, att, vlayer_data, input_data, rng, peer>>

\* json.dump buffering what it writes in a file that is never flushed, as
\* without the with block that closes the file.
json_dump_unflushed(f, path, data) == f

\* json.dump(input_data, f) followed by the close of the with block: the
\* file holds the data.
json_dump(f, path, data) == [f EXCEPT ![path] = data]

\* Step 3 of main seen by another process, first half: save_ezkl_input opens
\* output_path for writing, which creates or truncates the file in place.
SaveOpen ==
  /\ pc = "save"
  /\ fs' = [fs EXCEPT ![hybrid_input_path] = Partial]
  /\ pc' = "dump"
  /\ UNCHANGED <<onnx, prog, runId, att, vlayer_data, input_data, calls, steps,
                 log, outcome, rng, peer>>

\* Step 3 of main seen by another process, second half: json.dump and the
\* end of the with block.
SaveDump ==
  /\ pc = "dump"
  /\ fs' = json_dump(fs, hybrid_input_path, input_data)
  /\ steps' = Append(steps, "save_input")
  /\ log' = Append(log, "Input saved")
  /\ pc' = "gen_witness"
  /\ UNCHANGED <<onnx, prog, runId, att, vlayer_data, input_data, calls, outcome,
                 rng, peer>>

Main == StartMain \/ Decode \/ BuildFeatures \/ SaveInput \/ GenWitness \/ Prove \/ Verify

\* ------------------------------------------------------------- the stage scripts
\* A script ran from start to end in one go: the build directory it leaves,
\* the calls it made, the lines it printed and how it ended.
Ran(name, f, c, l, out) ==
  /\ Begin(name)
  /\ fs' = f
  /\ calls' = c
  /\ steps' = [i \in 1..Len(c) |-> c[i].cap]
  /\ log' = l
  /\ outcome' = out
  /\ att' = NoData
  /\ rng' = Unseeded
  /\ UNCHANGED <<pc, peer>>

\* Another network.onnx is put at MODEL_PATH.
ReplaceModel ==
  /\ pc = "idle"
  /\ onnx' \in Models \ {onnx}
  /\ Ran("replace_model", fs, <<>>, <<>>, "done")
  /\ UNCHANGED runId

\* 01_gen_data.main: a random calibration input at INPUT_PATH.
GenData ==
  /\ pc = "idle"
  /\ Ran("01_gen_data", [fs EXCEPT ![INPUT_PATH] = [kind |-> "input", src |-> "dummy"]],
         <<>>, <<"Saved">>, "done")
  /\ UNCHANGED <<onnx, runId>>

\* 02_settings.main: gen_settings then calibrate_settings, results ignored.
Settings ==
  /\ pc = "idle"
  /\ \E o1 \in Outcomes(fs, {}) :
       LET f1 == ezkl_gen_settings(fs, o1, SETTINGS_PATH)
           c1 == <<Call("gen_settings", "named", o1)>>
       IN IF Raises(o1)
            THEN Ran("02_settings", f1, c1, <<o1>>, "crashed")
            ELSE \E o2 \in Outcomes(f1, {INPUT_PATH, SETTINGS_PATH}) :
                   LET f2 == ezkl_calibrate_settings(f1, o2, SETTINGS_PATH)
                       c2 == Append(c1, Call("calibrate_settings", "named", o2))
                   IN IF Raises(o2)
                        THEN Ran("02_settings", f2, c2, <<o2>>, "crashed")
                        ELSE Ran("02_settings", f2, c2,
                                 <<"Settings generated and calibrated">>, "done")
  /\ UNCHANGED <<onnx, runId>>

\* 03_compile.main: compile_circuit, result ignored.
Compile ==
  /\ pc = "idle"
  /\ \E o \in Outcomes(fs, {SETTINGS_PATH}) :
       LET f1 == ezkl_compile_circuit(fs, o, COMPILED_PATH, SETTINGS_PATH)
           c1 == <<Call("compile_circuit", "named", o)>>
       IN IF Raises(o)
            THEN Ran("03_compile", f1, c1, <<o>>, "crashed")
            ELSE Ran("03_compile", f1, c1, <<"Compiled">>, "done")
  /\ UNCHANGED <<onnx, runId>>

\* 04_setup.main without its except clause.
CaughtNothing(o) == FALSE

\* 04_setup.main with "except Exception" in place of "except TypeError".
CaughtAny(o) == Raises(o)

\* 04_setup.main: the exceptions of the named call of setup that its
\* except clause catches.
CaughtBySetup(o) == o = "TypeError"

\* 04_setup.main: the branch on the value setup returned.
SetupReport(o) ==
  IF o = "ok" THEN [outcome |-> "done", line |-> "Keys generated"]
  ELSE [outcome |-> "failed", line |-> "Setup failed"]

\* 04_setup.main: get_srs, then setup with named arguments and, when that
\* raised TypeError, setup with positional arguments.
Setup ==
  /\ pc = "idle"
  /\ \E o0 \in Outcomes(fs, {SETTINGS_PATH}) :
       LET f0 == ezkl_get_srs(fs, o0, SRS_PATH)
           c0 == <<Call("get_srs", "named", o0)>>
       IN IF Raises(o0) THEN Ran("04_setup", f0, c0, <<o0>>, "crashed")
          ELSE IF o0 # "ok" THEN Ran("04_setup", f0, c0, <<"Failed to get SRS">>, "failed")
          ELSE \E o1 \in Outcomes(f0, {COMPILED_PATH, SRS_PATH}) :
                 LET f1 == ezkl_setup(f0, o1, COMPILED_PATH, VK_PATH, PK_PATH)
                     c1 == Append(c0, Call("setup", "named", o1))
                 IN IF CaughtBySetup(o1)
                      THEN \E o2 \in Outcomes(f1, {COMPILED_PATH, SRS_PATH}) :
                             LET f2 == ezkl_setup(f1, o2, COMPILED_PATH, VK_PATH, PK_PATH)
                                 c2 == Append(c1, Call("setup", "positional", o2))
                             IN IF Raises(o2)
                                  THEN Ran("04_setup", f2, c2, <<"SRS ready", o2>>, "crashed")
                                  ELSE Ran("04_setup", f2, c2,
                                           <<"SRS ready", SetupReport(o2).line>>,
                                           SetupReport(o2).outcome)
                    ELSE IF Raises(o1)
                      THEN Ran("04_setup", f1, c1, <<"SRS ready", o1>>, "crashed")
                    ELSE Ran("04_setup", f1, c1, <<"SRS ready", SetupReport(o1).line>>,
                             SetupReport(o1).outcome)
  /\ UNCHANGED <<onnx, runId>>

\* 06_prove.main: the branch on the value verify returned.
ProveReport(valid) ==
  IF valid THEN [outcome |-> "succeeded", line |-> "Proof verified locally"]
  ELSE [outcome |-> "failed_verification", line |-> "Proof failed local verification"]

\* 06_prove.main: gen_witness, a test that WITNESS_PATH exists, prove, a
\* test that PROOF_PATH exists, verify; no exception is caught.
Prove06 ==
  /\ pc = "idle"
  /\ runId < MaxRuns
  /\ runId' = runId + 1
  /\ UNCHANGED onnx
  /\ \E o1 \in Outcomes(fs, {INPUT_PATH, COMPILED_PATH}) :
       LET id == runId + 1
           f1 == ezkl_gen_witness(fs, o1, INPUT_PATH, COMPILED_PATH, WITNESS_PATH, id)
           c1 == <<Call("gen_witness", "named", o1)>>
       IN IF Raises(o1) THEN Ran("06_prove", f1, c1, <<o1>>, "crashed")
          ELSE IF ~Present(f1, WITNESS_PATH)
            THEN Ran("06_prove", f1, c1, <<"Witness generation failed">>, "failed_generation")
          ELSE \E o2 \in Outcomes(f1, {WITNESS_PATH, COMPILED_PATH, PK_PATH, SRS_PATH}) :
                 LET f2 == ezkl_prove(f1, o2, WITNESS_PATH, PK_PATH, PROOF_PATH, id)
                     c2 == Append(c1, Call("prove", "named", o2))
                 IN IF Raises(o2)
                      THEN Ran("06_prove", f2, c2, <<"Witness saved", o2>>, "crashed")
                    ELSE IF ~Present(f2, PROOF_PATH)
                      THEN Ran("06_prove", f2, c2,
                               <<"Witness saved", "Proof generation failed">>,
                               "failed_generation")
                    ELSE \E o3 \in VerifyOutcomes(f2, {PROOF_PATH, SETTINGS_PATH,
                                                       VK_PATH, SRS_PATH}) :
                           LET c3 == Append(c2, Call("verify", "named", o3))
                           IN IF Raises(o3)
                                THEN Ran("06_prove", f2, c3,
                                         <<"Witness saved", "Proof saved", o3>>, "crashed")
                                ELSE Ran("06_prove", f2, c3,
                                         <<"Witness saved", "Proof saved",
                                           ProveReport(o3 = "true").line>>,
                                         ProveReport(o3 = "true").outcome)

\* generate_hybrid_input.py: "balance_eth = 0.0".
hardcoded_balance_eth == 0

\* generate_hybrid_input.py: loads the attestation file, then builds the
\* feature vector from the balance written in the script, with the same
\* normalization, seed and draws as main, and saves it at
\* ezkl/build/hybrid_input.json.
GenerateHybridInput ==
  /\ pc = "idle"
  /\ att' \in Attestations
  /\ LET g == np_random_seed(Unseeded, Seed)
         r == np_random_randn(g, AuxCount)
         features == <<normalize_balance(hardcoded_balance_eth)>> \o r.vals
     IN /\ fs' = [fs EXCEPT ![hybrid_input_path] =
                    [kind |-> "input", src |-> "constant",
                     balance |-> hardcoded_balance_eth, seed |-> Seed, by |-> 0,
                     features |-> features]]
        /\ rng' = r.rng
  /\ Begin("generate_hybrid_input")
  /\ calls' = <<>>
  /\ steps' = <<>>
  /\ log' = <<"Hybrid input created">>
  /\ outcome' = "done"
  /\ UNCHANGED <<onnx, runId, pc, peer>>

\* generate_hybrid_proof.py: the branch on the value verify returned.
HybridReport(result) ==
  IF result THEN [outcome |-> "succeeded", line |-> "SUCCESS"]
  ELSE [outcome |-> "failed_verification", line |-> "Verification failed"]

\* generate_hybrid_proof.py: loads build/hybrid_input.json, then gen_witness,
\* prove and verify, results of the first two ignored, no exception caught.
GenerateHybridProof ==
  /\ pc = "idle"
  /\ runId < MaxRuns
  /\ runId' = runId + 1
  /\ UNCHANGED onnx
  /\ IF ~Present(fs, hybrid_input_path)
       THEN Ran("generate_hybrid_proof", fs, <<>>, <<"FileNotFoundError">>, "crashed")
       ELSE \E o1 \in Outcomes(fs, {hybrid_input_path, COMPILED_PATH}) :
         LET id == runId + 1
             f1 == ezkl_gen_witness(fs, o1, hybrid_input_path, COMPILED_PATH,
                                    hybrid_witness_path, id)
             c1 == <<Call("gen_witness", "named", o1)>>
         IN IF Raises(o1) THEN Ran("generate_hybrid_proof", f1, c1, <<o1>>, "crashed")
            ELSE \E o2 \in Outcomes(f1, {hybrid_witness_path, COMPILED_PATH, PK_PATH,
                                         SRS_PATH}) :
               LET f2 == ezkl_prove(f1, o2, hybrid_witness_path, PK_PATH,
                                    hybrid_proof_path, id)
                   c2 == Append(c1, Call("prove", "named", o2))
               IN IF Raises(o2)
                    THEN Ran("generate_hybrid_proof", f2, c2,
                             <<"Witness generated", o2>>, "crashed")
                    ELSE \E o3 \in VerifyOutcomes(f2, {hybrid_proof_path, SETTINGS_PATH,
                                                       VK_PATH, SRS_PATH}) :
                      LET c3 == Append(c2, Call("verify", "named", o3))
                      IN IF Raises(o3)
                           THEN Ran("generate_hybrid_proof", f2, c3,
                                    <<"Witness generated", "Proof generated", o3>>,
                                    "crashed")
                           ELSE Ran("generate_hybrid_proof", f2, c3,
                                    <<"Witness generated", "Proof generated",
                                      HybridReport(o3 = "true").line>>,
                                    HybridReport(o3 = "true").outcome)

Hybrid == GenerateHybridInput \/ GenerateHybridProof

\* ------------------------------------------------------------- two processes of main
\* The locals of the process that is scheduled.
Ctx ==
  [pc |-> pc, prog |-> prog, runId |-> runId, att |-> att,
   vlayer_data |-> vlayer_data, input_data |-> input_data, calls |-> calls,
   steps |-> steps, log |-> log, outcome |-> outcome, rng |-> rng]

\* The operating system schedules the other process of main, which has
\* steps left; the build directory is the one both work on.
Switch ==
  /\ peer # NoData
  /\ peer.pc # "idle"
  /\ peer' = Ctx
  /\ pc' = peer.pc
  /\ prog' = peer.prog
  /\ runId' = peer.runId
  /\ att' = peer.att
  /\ vlayer_data' = peer.vlayer_data
  /\ input_data' = peer.input_data
  /\ calls' = peer.calls
  /\ steps' = peer.steps
  /\ log' = peer.log
  /\ outcome' = peer.outcome
  /\ rng' = peer.rng
  /\ UNCHANGED <<onnx, fs>>

\* A process of main that was just started as invocation id on attestation a.
Started(id, a) ==
  [pc |-> "decode", prog |-> "main", runId |-> id, att |-> a,
   vlayer_data |-> NoData, input_data |-> NoData, calls |-> <<>>,
   steps |-> <<>>, log |-> <<>>, outcome |-> "running", rng |-> Unseeded]

\* Two processes of main were started, as invocations 1 and 2, each on an
\* attestation file that decodes, in a build directory that the stage
\* scripts left empty or fully built.
InitConc ==
  /\ onnx = 1
  /\ fs \in {EmptyDir, BuiltDir}
  /\ \E a \in {x \in Attestations : Decodable(x)} :
       /\ pc = Started(1, a).pc
       /\ prog = Started(1, a).prog
       /\ runId = Started(1, a).runId
       /\ att = a
       /\ vlayer_data = Started(1, a).vlayer_data
       /\ input_data = Started(1, a).input_data
       /\ calls = Started(1, a).calls
       /\ steps = Started(1, a).steps
       /\ log = Started(1, a).log
       /\ outcome = Started(1, a).outcome
       /\ rng = Started(1, a).rng
  /\ peer \in {Started(2, a) : a \in {x \in Attestations : Decodable(x)}}

NextConc ==
  Decode \/ BuildFeatures \/ SaveOpen \/ SaveDump \/ GenWitness \/ Prove \/ Verify \/ Switch

Stages == ReplaceModel \/ GenData \/ Settings \/ Compile \/ Setup \/ Prove06

Next == Main \/ Hybrid

NextStages == Stages

Spec == Init /\ [][Next]_vars

SpecStages == InitStages /\ [][NextStages]_vars

SpecConc == InitConc /\ [][NextConc]_vars

\* ------------------------------------------------------------- a backend that never fails
\* Every call made so far did its work: gen_witness and prove returned a
\* truthy value, verify returned true.
AllOk(c) == \A i \in DOMAIN c : c[i].res \in {"ok", "true"}

\* The programs of Spec against a backend whose every call succeeds; a
\* program that was started takes its next step eventually. A call that
\* cannot succeed, because a file it reads is not there, has no place in
\* these behaviours: the run ends at it, as it does in the code, where the
\* call raises and main returns.
NextLive == Next /\ AllOk(calls')

SpecLive == Init /\ [][NextLive]_vars /\ WF_vars(NextLive)

\* ------------------------------------------------------------- build as a function
\* The balances at which np.clip starts to clip.
LowerKnee == center - (scale * clampBound) \div 1000
UpperKnee == center + (scale * clampBound) \div 1000

\* The decoded facts given to build: balances on a grid, at both knees and
\* next to them.
BuildInputs ==
  {[kind |-> "fact", balance_wei |-> b] :
     b \in {k * EthStep : k \in (-GridSteps)..GridSteps}
            \cup {LowerKnee - 1, LowerKnee, LowerKnee + 1,
                  UpperKnee - 1, UpperKnee, UpperKnee + 1}}

\* A process that calls generate_model_input_with_verified_data any number
\* of times; other code of the process may use the generator in between.
InitFeatures ==
  /\ fs = EmptyDir
  /\ InitRest

\* One call of build on any fact, in the generator state the process is in;
\* calls keeps the last two calls: the fact, the generator before and after,
\* and the vector returned.
CallBuild ==
  \E d \in BuildInputs :
    LET r == generate_model_input_with_verified_data(d, runId, rng)
        c == [fact |-> d, before |-> rng, after |-> r.rng,
              features |-> r.input.features]
    IN /\ vlayer_data' = d
       /\ input_data' = r.input
       /\ rng' = r.rng
       /\ calls' = IF calls = <<>> THEN <<c>> ELSE <<Last(calls), c>>
       /\ steps' = <<"build_features">>
       /\ UNCHANGED <<onnx, fs, pc, prog, runId, att, log, outcome, peer>>

\* Other code of the process uses the process-wide generator between two
\* calls of build: it seeds it with another seed or not, and draws some
\* values from it.
UseGenerator ==
  /\ \E g \in {rng, np_random_seed(rng, Seed + 1)} :
       \E n \in 0..MaxDraws : rng' = np_random_randn(g, n).rng
  /\ steps # <<"use_generator">>
  /\ steps' = <<"use_generator">>
  /\ UNCHANGED <<onnx, fs, pc, prog, runId, att, vlayer_data, input_data, calls,
                 log, outcome, peer>>

NextFeatures == CallBuild \/ UseGenerator

SpecFeatures == InitFeatures /\ [][NextFeatures]_vars

\* ------------------------------------------------------------- properties
Caps(c) == [i \in 1..Len(c) |-> c[i].cap]

\* C1, as stated: a run of main that finds the witness of the same input
\* already built skips the stage, making no call of the proving service.
C1_SkipsBuilt ==
  [][(/\ prog = "main"
      /\ pc = "gen_witness"
      /\ Present(fs, hybrid_witness_path)
      /\ fs[hybrid_witness_path].data.balance = input_data.balance)
     => calls' = calls]_vars

\* C1, amended: no stage of main is skipped because its artifact is there.
\* A run that passed decode and features has called gen_witness once when it
\* stands before prove, gen_witness and prove once each when it stands
\* before verify, and all three once each when it ends with a verdict.
C1_EveryRunCalls ==
  prog = "main" =>
    /\ pc = "prove" => Caps(calls) = <<"gen_witness">>
    /\ pc = "verify" => Caps(calls) = <<"gen_witness", "prove">>
    /\ (pc = "idle" /\ outcome \in {"succeeded", "failed_verification"})
         => Caps(calls) = <<"gen_witness", "prove", "verify">>

\* The second run stands before prove, having called gen_witness again, while
\* the proof the first run built from the same balance is still there.
C1_SecondRun ==
  /\ prog = "main"
  /\ runId = 2
  /\ pc = "prove"
  /\ Present(fs, hybrid_proof_path)
  /\ fs[hybrid_proof_path].by = 1
  /\ fs[hybrid_proof_path].witness.data.balance = input_data.balance
  /\ calls = <<Call("gen_witness", "named", "ok")>>

\* C2, as stated: in every stage a named call that raised TypeError is
\* followed by a positional call of the same capability.
C2_FallbackEverywhere ==
  \A i \in DOMAIN calls :
    (calls[i].conv = "named" /\ calls[i].res = "TypeError")
      => \E j \in DOMAIN calls :
           j > i /\ calls[j].cap = calls[i].cap /\ calls[j].conv = "positional"

\* C2, amended: only setup in 04_setup has the fallback. Its named call that
\* raised TypeError is followed at once by one positional call of setup,
\* which is the last call of the script; a TypeError of any other call is
\* the last call and the script crashes; no capability is called more than
\* twice in one invocation.
C2_FallbackInSetupOnly ==
  \A i \in DOMAIN calls :
    /\ Cardinality({j \in DOMAIN calls : calls[j].cap = calls[i].cap}) <= 2
    /\ calls[i].conv = "positional"
         => /\ calls[i].cap = "setup"
            /\ i = Len(calls)
            /\ i > 1
            /\ calls[i - 1] = Call("setup", "named", "TypeError")
    /\ calls[i] = Call("setup", "named", "TypeError")
         => /\ i < Len(calls)
            /\ calls[i + 1].cap = "setup"
            /\ calls[i + 1].conv = "positional"
    /\ (calls[i].res = "TypeError" /\ calls[i] # Call("setup", "named", "TypeError"))
         => i = Len(calls) /\ outcome = "crashed"

\* 04_setup ended with keys generated by the positional call.
C2_FallbackSucceeded ==
  /\ prog = "04_setup"
  /\ Len(calls) = 3
  /\ calls[2] = Call("setup", "named", "TypeError")
  /\ calls[3] = Call("setup", "positional", "ok")
  /\ outcome = "done"

\* C3: a call that raised another exception than TypeError, or returned a
\* falsy value, is never followed by a call of the same capability; the
\* exception is the last call of the invocation, which ends failed; a
\* positional call comes only right after a TypeError of the same capability;
\* and in 04_setup a falsy result is the last call and the script reports
\* failure.
C3_NoRetry ==
  \A i \in DOMAIN calls :
    /\ calls[i].res \in {"Exception", "falsy"}
         => \A j \in DOMAIN calls : j > i => calls[j].cap # calls[i].cap
    /\ calls[i].res = "Exception"
         => /\ i = Len(calls)
            /\ outcome \in {"crashed", "failed_generation", "failed_verification"}
    /\ calls[i].conv = "positional"
         => /\ i > 1
            /\ calls[i - 1].res = "TypeError"
            /\ calls[i - 1].cap = calls[i].cap
    /\ (prog = "04_setup" /\ calls[i].res = "falsy")
         => (i = Len(calls) /\ outcome = "failed")

\* 04_setup crashed on a computation failure of the named call of setup.
C3_SetupFailed ==
  /\ prog = "04_setup"
  /\ Len(calls) = 2
  /\ calls[2] = Call("setup", "named", "Exception")
  /\ outcome = "crashed"

\* C4: a run of main or of generate_hybrid_proof that reports success made
\* verify its last call and verify returned true; a run whose verify
\* returned false reports the failure of the verification.
C4_SucceededOnlyIfVerified ==
  prog \in {"main", "generate_hybrid_proof"} =>
    /\ outcome = "succeeded"
         => (Len(calls) > 0 /\ Last(calls) = Call("verify", "named", "true"))
    /\ \A i \in DOMAIN calls :
         (calls[i].cap = "verify" /\ calls[i].res = "false")
           => outcome = "failed_verification"

\* A run of main ended with the report of success.
C4_Succeeded ==
  /\ prog = "main"
  /\ pc = "idle"
  /\ outcome = "succeeded"
  /\ Caps(calls) = <<"gen_witness", "prove", "verify">>

Range(q) == {q[i] : i \in DOMAIN q}

\* C5, as stated: the report of a run whose verify call raised is never the
\* report of a run whose verify call returned false, so the report "failed
\* at verification" is only made when verify returned false.
C5_ReportTellsRejection ==
  (prog = "main" /\ pc = "idle" /\ outcome = "failed_verification")
    => Last(calls).res = "false"

\* C5, amended: verify_hybrid_proof returns False and main reports "failed
\* at verification" both when verify returned false and when it raised; the
\* two differ only in the line verify_hybrid_proof prints.
C5_DistinguishedByLineOnly ==
  (prog = "main" /\ pc = "idle" /\ Len(calls) = 3) =>
    LET r == Last(calls).res
    IN /\ r = "false"
            => /\ "Verification failed" \in Range(log)
               /\ "Error during verification" \notin Range(log)
       /\ Raises(r)
            => /\ "Error during verification" \in Range(log)
               /\ "Verification failed" \notin Range(log)
       /\ r # "true"
            => /\ outcome = "failed_verification"
               /\ Last(log) = "Hybrid proof pipeline failed at verification"

\* A run of main whose verify call raised ended with the report of a failed
\* verification.
C5_VerifyRaised ==
  /\ prog = "main"
  /\ pc = "idle"
  /\ Len(calls) = 3
  /\ Last(calls) = Call("verify", "named", "Exception")
  /\ outcome = "failed_verification"

\* C6: no step of a run of main on an attestation that does not decode
\* changes a file of the build directory or calls the proving service.
C6_FailFast ==
  [][(prog' = "main" /\ ~Decodable(att')) => (fs' = fs /\ calls' = <<>>)]_vars

\* A run on an attestation without the journal field crashed in decode, in a
\* build directory where the proving calls could have succeeded.
C6_DecodeFailed ==
  /\ prog = "main"
  /\ pc = "idle"
  /\ outcome = "crashed"
  /\ att.success = "true"
  /\ att.payload.kind = "missing"
  /\ Present(fs, COMPILED_PATH)
  /\ ~Present(fs, hybrid_input_path)

\* C7: a run of main on an attestation whose success flag is false or
\* absent ends in decode with the ValueError of the flag test, having only
\* loaded the file and tested the flag: the journal is not read, and no
\* later step runs.
C7_SuccessFlagFirst ==
  (prog = "main" /\ pc # "decode" /\ att.success # "true") =>
    /\ pc = "idle"
    /\ outcome = "crashed"
    /\ steps = <<"load_json", "check_success">>
    /\ log = <<"ValueError">>
    /\ calls = <<>>

\* A run on an attestation with a well-formed journal and the success flag
\* false ended in decode.
C7_Unverified ==
  /\ prog = "main"
  /\ pc = "idle"
  /\ att.success = "false"
  /\ att.payload.kind = "quantity"
  /\ att.zkProof
  /\ outcome = "crashed"

\* The stage chain Settings .. Verify, by the capability each stage calls.
StageOrder ==
  <<"gen_settings", "compile_circuit", "setup", "gen_witness", "prove", "verify">>

IsPrefix(a, b) == Len(a) <= Len(b) /\ \A i \in 1..Len(a) : a[i] = b[i]

\* C8, as stated: a stage is called in a run of main only after every
\* earlier stage of the chain Settings, Compile, Setup, Witness, Prove,
\* Verify was called in that run and succeeded.
C8_WholeChainInOrder ==
  prog = "main" =>
    \A i \in DOMAIN calls : \A k \in DOMAIN StageOrder :
      StageOrder[k] = calls[i].cap
        => \A e \in 1..(k - 1) :
             \E j \in 1..(i - 1) :
               calls[j].cap = StageOrder[e] /\ calls[j].res = "ok"

\* The steps of a complete run of main, in the order of the code.
MainSteps ==
  <<"load_json", "check_success", "read_journalDataAbi", "abi_decode",
    "parse_int", "read_zkProof", "build_features", "save_input", "gen_witness",
    "prove", "verify">>

\* C8, amended: the steps of a run of main are an initial part of decode,
\* build features, save input, gen_witness, prove, verify, each step once;
\* the proving service is called only after decode, features and save, and
\* only for gen_witness, prove and verify in that order; a call that raised
\* is the last call of the run, and a run that crashed in decode made none.
C8_MainOrder ==
  prog = "main" =>
    /\ IsPrefix(steps, MainSteps)
    /\ IsPrefix(Caps(calls), <<"gen_witness", "prove", "verify">>)
    /\ calls # <<>> => (Decodable(att) /\ "save_input" \in Range(steps))
    /\ \A i \in DOMAIN calls :
         calls[i].res \in {"TypeError", "Exception"}
           => (i = Len(calls) /\ pc = "idle")
    /\ outcome = "crashed" => calls = <<>>

\* A run of main ended at prove, which raised after gen_witness succeeded.
C8_StoppedAtProve ==
  /\ prog = "main"
  /\ pc = "idle"
  /\ outcome = "failed_generation"
  /\ calls = <<Call("gen_witness", "named", "ok"), Call("prove", "named", "Exception")>>

\* C9, as stated: no stage consumes an upstream artifact built from another
\* configuration than the current one: compile_circuit reads settings made
\* for the network.onnx in place, and setup reads a circuit compiled from
\* the settings in place.
C9_NoStaleUpstream ==
  /\ (prog = "03_compile" /\ Last(calls).res = "ok")
       => fs[COMPILED_PATH].settings.model = onnx
  /\ (prog = "04_setup" /\ Last(calls).cap = "setup" /\ Last(calls).res = "ok")
       => /\ fs[VK_PATH].circuit.settings = fs[SETTINGS_PATH]
          /\ fs[SETTINGS_PATH].model = onnx

\* The files each stage script writes.
Writes(name) ==
  CASE name = "01_gen_data" -> {INPUT_PATH}
    [] name = "02_settings" -> {SETTINGS_PATH}
    [] name = "03_compile" -> {COMPILED_PATH}
    [] name = "04_setup" -> {SRS_PATH, VK_PATH, PK_PATH}
    [] name = "06_prove" -> {WITNESS_PATH, PROOF_PATH}
    [] OTHER -> {}

\* C9, amended: the artifacts are files at fixed paths without a
\* fingerprint; a stage script changes no file but its own outputs, so what
\* was built downstream of a replaced artifact or of a replaced network.onnx
\* stays as it was and is what the later stages read.
C9_OnlyOwnOutputs ==
  [][\A p \in BUILD_DIR : fs'[p] # fs[p] => p \in Writes(prog')]_vars

\* 04_setup generated keys from a circuit compiled from other settings than
\* the ones in place.
C9_StaleConsumed ==
  /\ prog = "04_setup"
  /\ Last(calls).cap = "setup"
  /\ Last(calls).res = "ok"
  /\ fs[VK_PATH].circuit.settings # fs[SETTINGS_PATH]

\* C10, as stated: a run of main that finds the witness an earlier run built
\* from the same balance, that run having produced no proof of it, resumes
\* at prove without calling gen_witness.
C10_ResumesAtFailedStage ==
  [][(/\ prog = "main"
      /\ pc = "gen_witness"
      /\ Present(fs, hybrid_witness_path)
      /\ fs[hybrid_witness_path].by < runId
      /\ fs[hybrid_witness_path].data.balance = input_data.balance
      /\ \/ ~Present(fs, hybrid_proof_path)
         \/ fs[hybrid_proof_path].witness # fs[hybrid_witness_path])
     => Len(calls') = Len(calls)]_vars

\* C10, amended: the step at which a run of main fails changes no file, and
\* no step of main changes an artifact of the stage scripts; the next run
\* does not resume at the failed stage: its first call is gen_witness again,
\* also when the witness is there.
C10_KeptButRestarted ==
  [][/\ (prog = "main" /\ outcome = "running"
           /\ outcome' \in {"crashed", "failed_generation", "failed_verification"})
          => fs' = fs
     /\ prog' = "main"
          => \A p \in {INPUT_PATH, SETTINGS_PATH, COMPILED_PATH, VK_PATH, PK_PATH,
                       SRS_PATH} : fs'[p] = fs[p]
     /\ (prog = "main" /\ pc = "gen_witness" /\ pc' # pc)
          => (Len(calls') = 1 /\ calls'[1].cap = "gen_witness")]_vars

\* The second run called gen_witness although the witness that the first
\* run built from the same balance, and did not prove, was there.
C10_Restarted ==
  /\ prog = "main"
  /\ runId = 2
  /\ pc = "prove"
  /\ Len(calls) = 1
  /\ Present(fs, hybrid_witness_path)
  /\ fs[hybrid_witness_path].by = 1
  /\ fs[hybrid_witness_path].data.balance = input_data.balance
  /\ ~Present(fs, hybrid_proof_path)

\* C11, as stated: no stage reads an artifact at its published location
\* while it is only partially written; here, no call of gen_witness is made
\* while hybrid_input.json is truncated and not yet filled.
C11_NeverReadsPartial ==
  [][(runId' = runId /\ Len(calls') = 1 /\ calls = <<>>)
       => fs[hybrid_input_path] # Partial]_vars

\* C11, amended: save_ezkl_input writes hybrid_input.json in place. The file
\* is partially written only while some process of main is between the open
\* and the end of json.dump; no other file of the build directory is ever
\* partial; and a process calls gen_witness only after its own
\* save_ezkl_input returned.
C11_PartialOnlyDuringSave ==
  /\ fs[hybrid_input_path] = Partial => (pc = "dump" \/ peer.pc = "dump")
  /\ \A p \in BUILD_DIR \ {hybrid_input_path} : fs[p] # Partial
  /\ pc \in {"gen_witness", "prove", "verify"} => "save_input" \in Range(steps)

\* A process failed at gen_witness while the other process had truncated
\* hybrid_input.json and not yet filled it.
C11_ReadPartial ==
  /\ pc = "idle"
  /\ outcome = "failed_generation"
  /\ calls = <<Call("gen_witness", "named", "Exception")>>
  /\ peer.pc = "dump"
  /\ fs[hybrid_input_path] = Partial
  /\ Present(fs, COMPILED_PATH)

\* C12, as stated: of two processes of main run on different attestations,
\* each consumes only what derives from its own attestation: a witness is
\* built from the input file its own run saved, and a proof from the
\* witness its own run generated.
C12_OwnArtifactsOnly ==
  att # peer.att =>
    /\ Present(fs, hybrid_witness_path)
         => fs[hybrid_witness_path].data.by = fs[hybrid_witness_path].by
    /\ Present(fs, hybrid_proof_path)
         => fs[hybrid_proof_path].witness.by = fs[hybrid_proof_path].by

\* C12, amended: every process of main, whatever its attestation, writes the
\* same three files of the one build directory and no other, and a witness
\* records the input file that was at hybrid_input.json when gen_witness
\* was called, a proof the witness that was at hybrid_witness.json when
\* prove was called, whichever process wrote them.
C12_SharedFixedPaths ==
  [][\A p \in BUILD_DIR :
       fs'[p] # fs[p]
         => /\ p \in {"hybrid_input.json", "hybrid_witness.json", "hybrid_proof.json"}
            /\ p = "hybrid_witness.json" => fs'[p].data = fs[hybrid_input_path]
            /\ p = "hybrid_proof.json" => fs'[p].witness = fs[hybrid_witness_path]]_vars

\* The proof of invocation 1 was built from the witness of invocation 1,
\* which was built from the input file invocation 2 saved for another
\* attestation.
C12_CrossRead ==
  /\ att # peer.att
  /\ Present(fs, hybrid_proof_path)
  /\ fs[hybrid_proof_path].by = 1
  /\ fs[hybrid_proof_path].witness.by = 1
  /\ fs[hybrid_proof_path].witness.data.by = 2

\* C13: every feature vector a program builds has 16 entries, and its
\* feature[0] is the normalization of the quantity decoded from the
\* attestation the program was given, never of a constant.
C13_FeatureFromAttestation ==
  /\ (prog = "main" /\ input_data # NoData)
       => /\ Decodable(att)
          /\ Len(input_data.features) = 16
          /\ input_data.features[1] = normalize_balance(att.payload.q)
  /\ (prog = "generate_hybrid_input" /\ outcome = "done")
       => /\ Decodable(att)
          /\ Len(fs[hybrid_input_path].features) = 16
          /\ fs[hybrid_input_path].features[1] = normalize_balance(att.payload.q)

\* C14: feature[0] never lies outside [-clampBound, clampBound]; it is
\* exactly +clampBound for every balance above center + scale*clampBound
\* and exactly -clampBound for every balance below center -
\* scale*clampBound; between the two it is (balance - center) / scale, which
\* is -0.2 for the balance 0; and of two calls of build, the one with the
\* larger balance never returns the smaller feature[0].
C14_ClampCorrect ==
  /\ \A i \in DOMAIN calls :
       LET x == calls[i].fact.balance_wei
           y == calls[i].features[1]
       IN /\ -clampBound <= y /\ y <= clampBound
          /\ x > center + (scale * clampBound) \div 1000 => y = clampBound
          /\ x < center - (scale * clampBound) \div 1000 => y = -clampBound
          /\ (-clampBound < y /\ y < clampBound) => y * scale = (x - center) * 1000
          /\ x = 0 => y = -200
  /\ \A i, j \in DOMAIN calls :
       calls[i].fact.balance_wei <= calls[j].fact.balance_wei
         => calls[i].features[1] <= calls[j].features[1]

\* Build was called on a balance below the lower knee and then on a balance
\* above the upper knee.
C14_BothClamped ==
  /\ Len(calls) = 2
  /\ calls[1].fact.balance_wei < -575
  /\ calls[1].features[1] = -2500
  /\ calls[2].fact.balance_wei > 675
  /\ calls[2].features[1] = 2500

\* C15: two calls of build with the same decoded fact return the same 16
\* features, whatever state the process-wide generator was in before each
\* call.
C15_Deterministic ==
  \A i, j \in DOMAIN calls :
    calls[i].fact = calls[j].fact => calls[i].features = calls[j].features

\* Build was called twice on the same fact, the second time after other code
\* had re-seeded the generator with another seed and drawn from it.
C15_SameFactOtherGenerator ==
  /\ Len(calls) = 2
  /\ calls[1].fact = calls[2].fact
  /\ calls[1].before = Unseeded
  /\ calls[2].before.seed = Seed + 1
  /\ calls[2].before.pos > 0
  /\ Len(calls[2].features) = 16

\* C16, as stated: a call of build leaves the process-wide generator in the
\* state it found it in.
C16_GeneratorUntouched ==
  \A i \in DOMAIN calls : calls[i].after = calls[i].before

\* C16, amended: every call of build seeds the process-wide generator with
\* 42 and draws 15 values from it, so it leaves the generator seeded with 42
\* at position 15 whatever state it found it in; it changes no file.
C16_GeneratorReseeded ==
  /\ \A i \in DOMAIN calls :
       calls[i].after = [seeded |-> TRUE, seed |-> 42, pos |-> 15]
  /\ fs = EmptyDir

\* Build found the generator seeded by other code with another seed and left
\* it seeded with 42.
C16_Reseeded ==
  /\ Len(calls) = 2
  /\ calls[2].before.seeded
  /\ calls[2].before.seed # 42
  /\ calls[2].after.seed = 42
  /\ rng = calls[2].after

C18_OwnProofOnly ==
  (prog = "main" /\ pc = "idle" /\ outcome = "succeeded") =>
    /\ fs[hybrid_proof_path].by = runId
    /\ fs[hybrid_proof_path].witness.by = runId
    /\ fs[hybrid_proof_path].witness.data.by = runId

\* C19: in an execution of 06_prove, prove is called only if the gen_witness
\* call of this execution wrote the witness, and verify only if the prove
\* call of this execution wrote the proof.
C19_OwnWitnessOnly ==
  prog = "06_prove" =>
    /\ Len(calls) >= 2
         => (calls[1].res = "ok" /\ fs[WITNESS_PATH].by = runId)
    /\ Len(calls) >= 3
         => (calls[2].res = "ok" /\ fs[PROOF_PATH].by = runId)

====
